---- MODULE Spec2Model ----
(***************************************************************************)
(* Model of the AVL tree of src/main.cpp: the node heap, the global root,  *)
(* the element counter of avl_tree, and the operations insert, deleteNode, *)
(* kSmallest, search, numNodesSmallerThan and numNodesGreaterThan.         *)
(*                                                                         *)
(* Memory is a finite array of node cells addressed 1..MaxNodes; 0 is the  *)
(* null pointer.  A cell is live between `new node` and free().  The code  *)
(* allocates with new and releases with free(); the model treats free() as *)
(* releasing the cell.  A freed cell keeps its bytes.  Dereferencing the   *)
(* null pointer, exhausting the stack in a recursion that never ends, or   *)
(* looping for ever, ends the call without a return (status "crashed").    *)
(* Reading or writing a freed cell is undefined: the actions choose        *)
(* between the two outcomes a build produces, a trap (mode "trap") or the  *)
(* access going through on the stale bytes (mode "stale").                 *)
(***************************************************************************)
EXTENDS Integers, FiniteSets, Sequences, TLC

\* ---- bounds ----
MaxNodes == 5
MaxVal == 5
MaxElements == 5
MaxDeletes == 1
\* height of the shorter child of the subtrees handed to balance on its own
MaxLow == 2

NULL == 0
NodeIds == 1..MaxNodes
Values == 1..MaxVal
Modes == {"trap", "stale"}
INT_MIN == -2147483647 - 1

\* depth after which a descent has certainly revisited a cell
Fuel == MaxNodes + 1
\* depth granted to deleteNode, whose descent rewrites values on its way down
DeleteFuel == 2 * MaxNodes + 2
\* iterations granted to the loop of kSmallest (a tree needs at most 2n)
LoopFuel == 3 * MaxNodes + 3

VARIABLES heap, live, root, elements, status, ref, ndel, tainted, last

vars == <<heap, live, root, elements, status, ref, ndel, tainted, last>>

tree_node == [value : Int, left : {NULL} \cup NodeIds, right : {NULL} \cup NodeIds]

\* the memory a call works on: cells, live set, global root, counter,
\* rotation events performed by balance (their number, and for each the
\* rotation applied, the cell it was applied at and the cell it returned),
\* whether the call has died, and whether it asked for a cell when the
\* model's memory had none left
Mem(h, l, r, e) ==
    [heap |-> h, live |-> l, root |-> r, elements |-> e, rot |-> 0, how |-> <<>>,
     fault |-> FALSE, oom |-> FALSE]

Dead(m) == [m EXCEPT !.fault = TRUE]

\* may the pointer n be dereferenced
Valid(m, n, mode) == n # NULL /\ (n \in m.live \/ mode = "stale")

Max(a, b) == IF a >= b THEN a ELSE b

\* height(node *): -1 stands for a call that does not return
RECURSIVE height(_, _, _, _)
height(m, tree, mode, fuel) ==
    IF tree = NULL THEN 0
    ELSE IF fuel = 0 \/ ~Valid(m, tree, mode) THEN -1
    ELSE LET left_height == height(m, m.heap[tree].left, mode, fuel - 1)
             right_height == height(m, m.heap[tree].right, mode, fuel - 1)
         IN IF left_height = -1 \/ right_height = -1 THEN -1
            ELSE Max(left_height, right_height) + 1

\* difference(node *): [ok, bf]
difference(m, tree, mode) ==
    IF ~Valid(m, tree, mode) THEN [ok |-> FALSE, bf |-> 0]
    ELSE LET left_height == height(m, m.heap[tree].left, mode, Fuel)
             right_height == height(m, m.heap[tree].right, mode, Fuel)
         IN IF left_height = -1 \/ right_height = -1 THEN [ok |-> FALSE, bf |-> 0]
            ELSE [ok |-> TRUE, bf |-> left_height - right_height]

\* rr_rotation(node *parent)
rr_rotation(m, parent, mode) ==
    IF m.fault \/ ~Valid(m, parent, mode) THEN [m |-> Dead(m), ret |-> NULL]
    ELSE LET temp == m.heap[parent].right
         IN IF ~Valid(m, temp, mode) THEN [m |-> Dead(m), ret |-> NULL]
            ELSE LET h1 == [m.heap EXCEPT ![parent].right = m.heap[temp].left]
                     h2 == [h1 EXCEPT ![temp].left = parent]
                 IN [m |-> [m EXCEPT !.heap = h2], ret |-> temp]

\* ll_rotation(node *parent)
ll_rotation(m, parent, mode) ==
    IF m.fault \/ ~Valid(m, parent, mode) THEN [m |-> Dead(m), ret |-> NULL]
    ELSE LET temp == m.heap[parent].left
         IN IF ~Valid(m, temp, mode) THEN [m |-> Dead(m), ret |-> NULL]
            ELSE LET h1 == [m.heap EXCEPT ![parent].left = m.heap[temp].right]
                     h2 == [h1 EXCEPT ![temp].right = parent]
                 IN [m |-> [m EXCEPT !.heap = h2], ret |-> temp]

\* lr_rotation(node *parent)
lr_rotation(m, parent, mode) ==
    IF m.fault \/ ~Valid(m, parent, mode) THEN [m |-> Dead(m), ret |-> NULL]
    ELSE LET temp == m.heap[parent].left
             r == rr_rotation(m, temp, mode)
         IN IF r.m.fault THEN r
            ELSE ll_rotation([r.m EXCEPT !.heap[parent].left = r.ret], parent, mode)

\* rl_rotation(node *parent)
rl_rotation(m, parent, mode) ==
    IF m.fault \/ ~Valid(m, parent, mode) THEN [m |-> Dead(m), ret |-> NULL]
    ELSE LET temp == m.heap[parent].right
             r == ll_rotation(m, temp, mode)
         IN IF r.m.fault THEN r
            ELSE rr_rotation([r.m EXCEPT !.heap[parent].right = r.ret], parent, mode)

\* one rotation event of balance has been performed
Rotated(r, kind, at) ==
    IF r.m.fault THEN r
    ELSE [r EXCEPT !.m.rot = @ + 1,
                   !.m.how = Append(@, [kind |-> kind, at |-> at, top |-> r.ret])]

\* balance that never picks a double rotation
balance_single(m, tree, mode) ==
    IF m.fault THEN [m |-> m, ret |-> NULL]
    ELSE LET balance_factor == difference(m, tree, mode)
         IN IF ~balance_factor.ok THEN [m |-> Dead(m), ret |-> NULL]
            ELSE IF balance_factor.bf > 1 THEN
                LET d == difference(m, m.heap[tree].left, mode)
                IN IF ~d.ok THEN [m |-> Dead(m), ret |-> NULL]
                   ELSE IF d.bf > 0 THEN Rotated(ll_rotation(m, tree, mode), "ll", tree)
                   ELSE Rotated(ll_rotation(m, tree, mode), "ll", tree)
            ELSE IF balance_factor.bf < -1 THEN
                LET d == difference(m, m.heap[tree].right, mode)
                IN IF ~d.ok THEN [m |-> Dead(m), ret |-> NULL]
                   ELSE IF d.bf > 0 THEN Rotated(rr_rotation(m, tree, mode), "rr", tree)
                   ELSE Rotated(rr_rotation(m, tree, mode), "rr", tree)
            ELSE [m |-> m, ret |-> tree]

\* balance(node *tree)
\* balance whose thresholds are written 2 and -2: a factor of +-2 is let through
balance_late(m, tree, mode) ==
    IF m.fault THEN [m |-> m, ret |-> NULL]
    ELSE LET balance_factor == difference(m, tree, mode)
         IN IF ~balance_factor.ok THEN [m |-> Dead(m), ret |-> NULL]
            ELSE IF balance_factor.bf > 2 THEN
                LET d == difference(m, m.heap[tree].left, mode)
                IN IF ~d.ok THEN [m |-> Dead(m), ret |-> NULL]
                   ELSE IF d.bf > 0 THEN Rotated(ll_rotation(m, tree, mode), "ll", tree)
                   ELSE Rotated(lr_rotation(m, tree, mode), "lr", tree)
            ELSE IF balance_factor.bf < -2 THEN
                LET d == difference(m, m.heap[tree].right, mode)
                IN IF ~d.ok THEN [m |-> Dead(m), ret |-> NULL]
                   ELSE IF d.bf > 0 THEN Rotated(rl_rotation(m, tree, mode), "rl", tree)
                   ELSE Rotated(rr_rotation(m, tree, mode), "rr", tree)
            ELSE [m |-> m, ret |-> tree]

balance(m, tree, mode) ==
    IF m.fault THEN [m |-> m, ret |-> NULL]
    ELSE LET balance_factor == difference(m, tree, mode)
         IN IF ~balance_factor.ok THEN [m |-> Dead(m), ret |-> NULL]
            ELSE IF balance_factor.bf > 1 THEN
                LET d == difference(m, m.heap[tree].left, mode)
                IN IF ~d.ok THEN [m |-> Dead(m), ret |-> NULL]
                   ELSE IF d.bf > 0 THEN Rotated(ll_rotation(m, tree, mode), "ll", tree)
                   ELSE Rotated(lr_rotation(m, tree, mode), "lr", tree)
            ELSE IF balance_factor.bf < -1 THEN
                LET d == difference(m, m.heap[tree].right, mode)
                IN IF ~d.ok THEN [m |-> Dead(m), ret |-> NULL]
                   ELSE IF d.bf > 0 THEN Rotated(rl_rotation(m, tree, mode), "rl", tree)
                   ELSE Rotated(rr_rotation(m, tree, mode), "rr", tree)
            ELSE [m |-> m, ret |-> tree]

\* insert with the second comparison written >= : an equal key goes right
RECURSIVE insert_dup(_, _, _, _, _, _)
insert_dup(m, rootNode, value, addr, mode, fuel) ==
    IF m.fault THEN [m |-> m, ret |-> NULL]
    ELSE IF rootNode = NULL /\ addr = NULL THEN
        [m |-> [m EXCEPT !.fault = TRUE, !.oom = TRUE], ret |-> NULL]
    ELSE IF rootNode = NULL THEN
        [m |-> [m EXCEPT !.heap[addr] = [value |-> value, left |-> NULL, right |-> NULL],
                         !.live = @ \cup {addr},
                         !.elements = @ + 1],
         ret |-> addr]
    ELSE IF fuel = 0 \/ ~Valid(m, rootNode, mode) THEN [m |-> Dead(m), ret |-> NULL]
    ELSE IF value < m.heap[rootNode].value THEN
        LET r == insert_dup(m, m.heap[rootNode].left, value, addr, mode, fuel - 1)
        IN IF r.m.fault THEN r
           ELSE balance([r.m EXCEPT !.heap[rootNode].left = r.ret], rootNode, mode)
    ELSE IF value >= m.heap[rootNode].value THEN
        LET r == insert_dup(m, m.heap[rootNode].right, value, addr, mode, fuel - 1)
        IN IF r.m.fault THEN r
           ELSE balance([r.m EXCEPT !.heap[rootNode].right = r.ret], rootNode, mode)
    ELSE [m |-> m, ret |-> rootNode]

\* insert that ends as deleteNode does: balance(rootNode); return rootNode;
RECURSIVE insert_discard(_, _, _, _, _, _)
insert_discard(m, rootNode, value, addr, mode, fuel) ==
    IF m.fault THEN [m |-> m, ret |-> NULL]
    ELSE IF rootNode = NULL /\ addr = NULL THEN
        [m |-> [m EXCEPT !.fault = TRUE, !.oom = TRUE], ret |-> NULL]
    ELSE IF rootNode = NULL THEN
        [m |-> [m EXCEPT !.heap[addr] = [value |-> value, left |-> NULL, right |-> NULL],
                         !.live = @ \cup {addr},
                         !.elements = @ + 1],
         ret |-> addr]
    ELSE IF fuel = 0 \/ ~Valid(m, rootNode, mode) THEN [m |-> Dead(m), ret |-> NULL]
    ELSE IF value < m.heap[rootNode].value THEN
        LET r == insert_discard(m, m.heap[rootNode].left, value, addr, mode, fuel - 1)
        IN IF r.m.fault THEN r
           ELSE [m |-> balance([r.m EXCEPT !.heap[rootNode].left = r.ret], rootNode, mode).m,
                 ret |-> rootNode]
    ELSE IF value > m.heap[rootNode].value THEN
        LET r == insert_discard(m, m.heap[rootNode].right, value, addr, mode, fuel - 1)
        IN IF r.m.fault THEN r
           ELSE [m |-> balance([r.m EXCEPT !.heap[rootNode].right = r.ret], rootNode, mode).m,
                 ret |-> rootNode]
    ELSE [m |-> m, ret |-> rootNode]

\* insert(node *rootNode, int value); addr is the cell `new node` returns
RECURSIVE insert(_, _, _, _, _, _)
insert(m, rootNode, value, addr, mode, fuel) ==
    IF m.fault THEN [m |-> m, ret |-> NULL]
    ELSE IF rootNode = NULL /\ addr = NULL THEN
        [m |-> [m EXCEPT !.fault = TRUE, !.oom = TRUE], ret |-> NULL]
    ELSE IF rootNode = NULL THEN
        [m |-> [m EXCEPT !.heap[addr] = [value |-> value, left |-> NULL, right |-> NULL],
                         !.live = @ \cup {addr},
                         !.elements = @ + 1],
         ret |-> addr]
    ELSE IF fuel = 0 \/ ~Valid(m, rootNode, mode) THEN [m |-> Dead(m), ret |-> NULL]
    ELSE IF value < m.heap[rootNode].value THEN
        LET r == insert(m, m.heap[rootNode].left, value, addr, mode, fuel - 1)
        IN IF r.m.fault THEN r
           ELSE balance([r.m EXCEPT !.heap[rootNode].left = r.ret], rootNode, mode)
    ELSE IF value > m.heap[rootNode].value THEN
        LET r == insert(m, m.heap[rootNode].right, value, addr, mode, fuel - 1)
        IN IF r.m.fault THEN r
           ELSE balance([r.m EXCEPT !.heap[rootNode].right = r.ret], rootNode, mode)
    ELSE [m |-> m, ret |-> rootNode]

\* minValueNode(node *rootNode): the loop, -1 when it does not end
RECURSIVE minValueNode(_, _, _, _)
minValueNode(m, current, mode, fuel) ==
    IF current = NULL THEN NULL
    ELSE IF fuel = 0 \/ ~Valid(m, current, mode) THEN -1
    ELSE IF m.heap[current].left # NULL
         THEN minValueNode(m, m.heap[current].left, mode, fuel - 1)
         ELSE current

\* free(rootNode) followed by `return temp`
Release(m, rootNode, temp) ==
    IF rootNode \notin m.live THEN [m |-> Dead(m), ret |-> NULL]
    ELSE [m |-> [m EXCEPT !.live = @ \ {rootNode}], ret |-> temp]

\* the tail of deleteNode: balance(rootNode); return rootNode;
DeleteTail(m, rootNode, mode) ==
    IF m.fault THEN [m |-> m, ret |-> NULL]
    ELSE LET b == balance(m, rootNode, mode)
         IN IF b.m.fault THEN b ELSE [m |-> b.m, ret |-> rootNode]

\* deleteNode(node *rootNode, int value); m.root is the global root
RECURSIVE deleteNode(_, _, _, _, _)
deleteNode(m, rootNode, value, mode, fuel) ==
    IF m.fault THEN [m |-> m, ret |-> NULL]
    ELSE IF m.root = NULL THEN [m |-> m, ret |-> m.root]
    ELSE IF fuel = 0 \/ ~Valid(m, rootNode, mode) THEN [m |-> Dead(m), ret |-> NULL]
    ELSE IF value < m.heap[rootNode].value THEN
        LET r == deleteNode(m, m.heap[rootNode].left, value, mode, fuel - 1)
        IN IF r.m.fault THEN r
           ELSE IF ~Valid(r.m, rootNode, mode) THEN [m |-> Dead(r.m), ret |-> NULL]
           ELSE DeleteTail([r.m EXCEPT !.heap[rootNode].left = r.ret], rootNode, mode)
    ELSE IF value > m.heap[rootNode].value THEN
        LET r == deleteNode(m, m.heap[rootNode].right, value, mode, fuel - 1)
        IN IF r.m.fault THEN r
           ELSE IF ~Valid(r.m, rootNode, mode) THEN [m |-> Dead(r.m), ret |-> NULL]
           ELSE DeleteTail([r.m EXCEPT !.heap[rootNode].right = r.ret], rootNode, mode)
    ELSE IF m.heap[rootNode].left = NULL THEN
        IF ~Valid(m, m.root, mode) THEN [m |-> Dead(m), ret |-> NULL]
        ELSE Release(m, rootNode, m.heap[m.root].right)
    ELSE IF m.heap[rootNode].right = NULL THEN
        IF ~Valid(m, m.root, mode) THEN [m |-> Dead(m), ret |-> NULL]
        ELSE Release(m, rootNode, m.heap[m.root].left)
    ELSE
        LET temp == minValueNode(m, m.heap[rootNode].right, mode, Fuel)
        IN IF temp = -1 \/ ~Valid(m, temp, mode) THEN [m |-> Dead(m), ret |-> NULL]
           ELSE LET m1 == [m EXCEPT !.heap[rootNode].value = m.heap[temp].value]
                    \* temp->value is read again after the assignment
                    r == deleteNode(m1, m1.heap[rootNode].right, m1.heap[temp].value,
                                    mode, fuel - 1)
                IN IF r.m.fault THEN r
                   ELSE IF ~Valid(r.m, rootNode, mode) THEN [m |-> Dead(r.m), ret |-> NULL]
                   ELSE DeleteTail([r.m EXCEPT !.heap[rootNode].right = r.ret,
                                               !.elements = @ - 1],
                                   rootNode, mode)

\* the inner while of kSmallest: the rightmost cell below pre that stops
\* before curr; -1 when the walk does not end
RECURSIVE Predecessor(_, _, _, _, _)
Predecessor(m, pre, curr, mode, fuel) ==
    IF fuel = 0 \/ ~Valid(m, pre, mode) THEN -1
    ELSE IF m.heap[pre].right # NULL /\ m.heap[pre].right # curr
         THEN Predecessor(m, m.heap[pre].right, curr, mode, fuel - 1)
         ELSE pre

\* the outer while of kSmallest leaving the loop as soon as the k-th node is seen
RECURSIVE Morris_break(_, _, _, _, _, _, _)
Morris_break(m, curr, count, ksmall, k, mode, fuel) ==
    IF curr = NULL THEN [m |-> m, ret |-> ksmall]
    ELSE IF fuel = 0 \/ ~Valid(m, curr, mode) THEN [m |-> Dead(m), ret |-> ksmall]
    ELSE IF m.heap[curr].left = NULL /\ count + 1 = k THEN
        [m |-> m, ret |-> m.heap[curr].value]
    ELSE IF m.heap[curr].left = NULL THEN
        Morris_break(m, m.heap[curr].right, count + 1,
               IF count + 1 = k THEN m.heap[curr].value ELSE ksmall, k, mode, fuel - 1)
    ELSE
        LET pre == Predecessor(m, m.heap[curr].left, curr, mode, Fuel)
        IN IF pre = -1 THEN [m |-> Dead(m), ret |-> ksmall]
           ELSE IF m.heap[pre].right = NULL THEN
               LET m1 == [m EXCEPT !.heap[pre].right = curr]
               IN Morris_break(m1, m1.heap[curr].left, count, ksmall, k, mode, fuel - 1)
           ELSE
               LET m1 == [m EXCEPT !.heap[pre].right = NULL]
               IN IF count + 1 = k THEN [m |-> m1, ret |-> m1.heap[curr].value]
                  ELSE Morris_break(m1, m1.heap[curr].right, count + 1,
                         IF count + 1 = k THEN m1.heap[curr].value ELSE ksmall,
                         k, mode, fuel - 1)

\* the outer while of kSmallest
RECURSIVE Morris(_, _, _, _, _, _, _)
Morris(m, curr, count, ksmall, k, mode, fuel) ==
    IF curr = NULL THEN [m |-> m, ret |-> ksmall]
    ELSE IF fuel = 0 \/ ~Valid(m, curr, mode) THEN [m |-> Dead(m), ret |-> ksmall]
    ELSE IF m.heap[curr].left = NULL THEN
        Morris(m, m.heap[curr].right, count + 1,
               IF count + 1 = k THEN m.heap[curr].value ELSE ksmall, k, mode, fuel - 1)
    ELSE
        LET pre == Predecessor(m, m.heap[curr].left, curr, mode, Fuel)
        IN IF pre = -1 THEN [m |-> Dead(m), ret |-> ksmall]
           ELSE IF m.heap[pre].right = NULL THEN
               LET m1 == [m EXCEPT !.heap[pre].right = curr]
               IN Morris(m1, m1.heap[curr].left, count, ksmall, k, mode, fuel - 1)
           ELSE
               LET m1 == [m EXCEPT !.heap[pre].right = NULL]
               IN Morris(m1, m1.heap[curr].right, count + 1,
                         IF count + 1 = k THEN m1.heap[curr].value ELSE ksmall,
                         k, mode, fuel - 1)

\* kSmallest with the visit counter starting at 1
kSmallest_from1(m, rootNode, k, mode) ==
    IF k < 1 \/ k > m.elements THEN [m |-> m, ret |-> 0, threw |-> TRUE]
    ELSE LET r == Morris(m, rootNode, 1, INT_MIN, k, mode, LoopFuel)
         IN [m |-> r.m, ret |-> r.ret, threw |-> FALSE]

\* kSmallest(node *rootNode, int k)
kSmallest(m, rootNode, k, mode) ==
    IF k < 1 \/ k > m.elements THEN [m |-> m, ret |-> 0, threw |-> TRUE]
    ELSE LET r == Morris(m, rootNode, 0, INT_MIN, k, mode, LoopFuel)
         IN [m |-> r.m, ret |-> r.ret, threw |-> FALSE]

\* search(node *tree, int value): the cell found, NULL, or -1 when the call dies
RECURSIVE search(_, _, _, _, _)
search(m, tree, value, mode, fuel) ==
    IF tree = NULL THEN NULL
    ELSE IF fuel = 0 \/ ~Valid(m, tree, mode) THEN -1
    ELSE IF m.heap[tree].value = value THEN tree
    ELSE IF m.heap[tree].value > value
         THEN search(m, m.heap[tree].left, value, mode, fuel - 1)
         ELSE search(m, m.heap[tree].right, value, mode, fuel - 1)

\* numNodes(node *tree): -1 when the call dies
RECURSIVE numNodes(_, _, _, _)
numNodes(m, tree, mode, fuel) ==
    IF tree = NULL THEN 0
    ELSE IF fuel = 0 \/ ~Valid(m, tree, mode) THEN -1
    ELSE LET l == numNodes(m, m.heap[tree].left, mode, fuel - 1)
             r == numNodes(m, m.heap[tree].right, mode, fuel - 1)
         IN IF l = -1 \/ r = -1 THEN -1 ELSE 1 + l + r

\* numNodesSmallerThan(node *tree, int x)
RECURSIVE numNodesSmallerThan(_, _, _, _, _)
numNodesSmallerThan(m, tree, x, mode, fuel) ==
    IF tree = NULL THEN 0
    ELSE IF fuel = 0 \/ ~Valid(m, tree, mode) THEN -1
    ELSE IF m.heap[tree].value = x THEN numNodes(m, m.heap[tree].left, mode, Fuel)
    ELSE IF m.heap[tree].value < x THEN
        LET l == numNodes(m, m.heap[tree].left, mode, Fuel)
            r == numNodesSmallerThan(m, m.heap[tree].right, x, mode, fuel - 1)
        IN IF l = -1 \/ r = -1 THEN -1 ELSE 1 + l + r
    ELSE numNodesSmallerThan(m, m.heap[tree].left, x, mode, fuel - 1)

\* numNodesGreaterThan(node *tree, int x)
RECURSIVE numNodesGreaterThan(_, _, _, _, _)
numNodesGreaterThan(m, tree, x, mode, fuel) ==
    IF tree = NULL THEN 0
    ELSE IF fuel = 0 \/ ~Valid(m, tree, mode) THEN -1
    ELSE IF m.heap[tree].value = x THEN numNodes(m, m.heap[tree].right, mode, Fuel)
    ELSE IF m.heap[tree].value > x THEN
        LET r == numNodes(m, m.heap[tree].right, mode, Fuel)
            l == numNodesGreaterThan(m, m.heap[tree].left, x, mode, fuel - 1)
        IN IF l = -1 \/ r = -1 THEN -1 ELSE 1 + r + l
    ELSE numNodesGreaterThan(m, m.heap[tree].right, x, mode, fuel - 1)

\* getNumElements()
getNumElements == elements

\* ---- the state machine ----

\* the record of the last call: its argument, what it returned, the rotation
\* events of balance in it (number rot, list how), whether it threw, and
\* getNumElements() before it
Call(op, arg, ret, rot, threw) ==
    [op |-> op, arg |-> arg, ret |-> ret, rot |-> rot, threw |-> threw, n0 |-> elements,
     how |-> <<>>]

NoCall ==
    [op |-> "none", arg |-> 0, ret |-> 0, rot |-> 0, threw |-> FALSE, n0 |-> 0,
     how |-> <<>>]

\* avl_tree(): root = nullptr, elements = 0
Init ==
    /\ heap = [n \in NodeIds |-> [value |-> 0, left |-> NULL, right |-> NULL]]
    /\ live = {}
    /\ root = NULL
    /\ elements = 0
    /\ status = "ok"
    /\ ref = {}
    /\ ndel = 0
    /\ tainted = FALSE
    /\ last = NoCall

\* the memory as the next call finds it
Now == Mem(heap, live, root, elements)

\* the cell `new node` hands out: the allocator is first fit; NULL when the
\* model's memory is exhausted
NewCell ==
    IF NodeIds \ live = {} THEN NULL
    ELSE CHOOSE a \in NodeIds \ live : \A b \in NodeIds \ live : a <= b

\* the call did not return
Crash(op, arg) ==
    /\ status' = "crashed"
    /\ last' = Call(op, arg, 0, 0, FALSE)
    /\ UNCHANGED <<heap, live, root, elements>>

\* the call returned r.ret and the caller rebinds root to it
Return(op, arg, r) ==
    /\ heap' = r.m.heap
    /\ live' = r.m.live
    /\ elements' = r.m.elements
    /\ root' = r.ret
    /\ status' = "ok"
    /\ last' = [Call(op, arg, r.ret, r.m.rot, FALSE) EXCEPT !.how = r.m.how]

\* root = t.insert(root, v)
Insert(v) ==
    /\ status = "ok"
    /\ elements < MaxElements
    /\ LET t == insert(Now, root, v, NewCell, "trap", Fuel)
       IN \E mode \in (IF t.m.fault THEN Modes ELSE {"trap"}) :
            LET r == IF mode = "trap" THEN t
                     ELSE insert(Now, root, v, NewCell, "stale", Fuel)
            IN /\ ~r.m.oom
               /\ IF r.m.fault THEN Crash("insert", v) ELSE Return("insert", v, r)
               /\ tainted' = (tainted \/ mode = "stale")
    /\ ref' = ref \cup {v}
    /\ UNCHANGED ndel

\* root = t.deleteNode(root, v)
Delete(v) ==
    /\ status = "ok"
    /\ ndel < MaxDeletes
    /\ LET t == deleteNode(Now, root, v, "trap", DeleteFuel)
       IN \E mode \in (IF t.m.fault THEN Modes ELSE {"trap"}) :
            LET r == IF mode = "trap" THEN t
                     ELSE deleteNode(Now, root, v, "stale", DeleteFuel)
            IN /\ IF r.m.fault THEN Crash("deleteNode", v) ELSE Return("deleteNode", v, r)
               /\ tainted' = (tainted \/ mode = "stale")
    /\ ref' = ref \ {v}
    /\ ndel' = ndel + 1

\* t.kSmallest(root, k)
KSmallest(k) ==
    /\ status = "ok"
    /\ LET t == kSmallest(Now, root, k, "trap")
       IN \E mode \in (IF t.m.fault THEN Modes ELSE {"trap"}) :
            LET r == IF mode = "trap" THEN t ELSE kSmallest(Now, root, k, "stale")
            IN /\ IF r.m.fault THEN Crash("kSmallest", k)
                  ELSE /\ heap' = r.m.heap
                       /\ last' = Call("kSmallest", k, r.ret, 0, r.threw)
                       /\ UNCHANGED <<live, root, elements, status>>
               /\ tainted' = (tainted \/ mode = "stale")
    /\ UNCHANGED <<ref, ndel>>

\* a call that only reads: the state stays, the result is recorded
Query(op, arg, res) ==
    /\ IF res = -1 THEN Crash(op, arg)
       ELSE /\ last' = Call(op, arg, res, 0, FALSE)
            /\ UNCHANGED <<heap, live, root, elements, status>>
    /\ UNCHANGED <<ref, ndel>>

\* t.search(root, v)
Search(v) ==
    /\ status = "ok"
    /\ LET t == search(Now, root, v, "trap", Fuel)
       IN \E mode \in (IF t = -1 THEN Modes ELSE {"trap"}) :
            /\ Query("search", v,
                     IF mode = "trap" THEN t ELSE search(Now, root, v, "stale", Fuel))
            /\ tainted' = (tainted \/ mode = "stale")

\* t.numNodesSmallerThan(root, x)
SmallerThan(x) ==
    /\ status = "ok"
    /\ LET t == numNodesSmallerThan(Now, root, x, "trap", Fuel)
       IN \E mode \in (IF t = -1 THEN Modes ELSE {"trap"}) :
            /\ Query("numNodesSmallerThan", x,
                     IF mode = "trap" THEN t
                     ELSE numNodesSmallerThan(Now, root, x, "stale", Fuel))
            /\ tainted' = (tainted \/ mode = "stale")

\* t.numNodesGreaterThan(root, x)
GreaterThan(x) ==
    /\ status = "ok"
    /\ LET t == numNodesGreaterThan(Now, root, x, "trap", Fuel)
       IN \E mode \in (IF t = -1 THEN Modes ELSE {"trap"}) :
            /\ Query("numNodesGreaterThan", x,
                     IF mode = "trap" THEN t
                     ELSE numNodesGreaterThan(Now, root, x, "stale", Fuel))
            /\ tainted' = (tainted \/ mode = "stale")

\* every call a driver can make
Next ==
    \/ \E v \in Values : Insert(v)
    \/ \E v \in Values : Delete(v)
    \/ \E k \in 0..(MaxElements + 1) : KSmallest(k)
    \/ \E v \in Values : Search(v)
    \/ \E x \in Values : SmallerThan(x)
    \/ \E x \in Values : GreaterThan(x)

Spec == Init /\ [][Next]_vars

\* a driver that only builds the tree and reads it with kSmallest
NextBuild ==
    \/ \E v \in Values : Insert(v)
    \/ \E k \in 0..(MaxElements + 1) : KSmallest(k)

SpecBuild == Init /\ [][NextBuild]_vars

\* ---- balance on its own ----
\* A subtree is drawn as <<>> (no node) or <<left, right>>.  The shapes of
\* height h in which every node is within balance 1:
RECURSIVE AVLShapes(_)
AVLShapes(h) ==
    IF h = 0 THEN {<<>>}
    ELSE IF h = 1 THEN {<< <<>>, <<>> >>}
    ELSE {<<l, r>> : l \in AVLShapes(h - 1), r \in AVLShapes(h - 1)}
         \cup {<<l, r>> : l \in AVLShapes(h - 1), r \in AVLShapes(h - 2)}
         \cup {<<l, r>> : l \in AVLShapes(h - 2), r \in AVLShapes(h - 1)}

\* a root whose children are such shapes and differ in height by two
Unbalanced ==
    UNION {{<<l, r>> : l \in AVLShapes(k + 2), r \in AVLShapes(k)}
           \cup {<<l, r>> : l \in AVLShapes(k), r \in AVLShapes(k + 2)}
           : k \in 0..MaxLow}

RECURSIVE Size(_)
Size(s) == IF s = <<>> THEN 0 ELSE 1 + Size(s[1]) + Size(s[2])

\* the most cells such a subtree has
MaxCells == 2^(MaxLow + 2) + 2^MaxLow - 1

\* the shape laid out in cells base+1.. in key order, each cell holding its
\* own number as value: the cell of the shape's root, and all its cells
RootOf(s, base) == IF s = <<>> THEN NULL ELSE base + Size(s[1]) + 1

RECURSIVE Cells(_, _)
Cells(s, base) ==
    IF s = <<>> THEN {}
    ELSE LET me == RootOf(s, base)
         IN Cells(s[1], base) \cup Cells(s[2], me)
            \cup {[id |-> me,
                   node |-> [value |-> me, left |-> RootOf(s[1], base),
                             right |-> RootOf(s[2], me)]]}

Place(s) ==
    [n \in 1..MaxCells |->
        IF n <= Size(s) THEN (CHOOSE c \in Cells(s, 0) : c.id = n).node
        ELSE [value |-> 0, left |-> NULL, right |-> NULL]]

InitBalance ==
    \E s \in Unbalanced :
        /\ heap = Place(s)
        /\ live = 1..Size(s)
        /\ root = RootOf(s, 0)
        /\ elements = Size(s)
        /\ status = "ok"
        /\ ref = 1..Size(s)
        /\ ndel = 0
        /\ tainted = FALSE
        /\ last = NoCall

\* root = balance(root)
Balance ==
    /\ status = "ok" /\ last.op = "none"
    /\ LET r == balance(Now, root, "trap")
       IN IF r.m.fault THEN Crash("balance", root)
          ELSE Return("balance", root, r)
    /\ UNCHANGED <<ref, ndel, tainted>>

NextBalance == Balance

SpecBalance == InitBalance /\ [][NextBalance]_vars

TypeOK ==
    /\ heap \in [NodeIds -> tree_node]
    /\ live \subseteq NodeIds
    /\ root \in {NULL} \cup NodeIds
    /\ elements \in Int
    /\ status \in {"ok", "crashed"}
    /\ ref \subseteq Values
    /\ ndel \in 0..MaxDeletes
    /\ tainted \in BOOLEAN

\* ---- views of the state used by the properties ----

Children(S) == ({heap[n].left : n \in S} \cup {heap[n].right : n \in S}) \ {NULL}

RECURSIVE Closure(_)
Closure(S) == LET T == S \cup Children(S) IN IF T = S THEN S ELSE Closure(T)

\* the cells reachable from the pointer n, and from root
Below(n) == IF n = NULL THEN {} ELSE Closure({n})
Reach == Below(root)

KeysBelow(n) == {heap[c].value : c \in Below(n)}
Keys == KeysBelow(root)

\* the call returned, and no call so far has gone on past a freed cell:
\* everything that happened is defined behaviour of the code
Returned == status = "ok" /\ ~tainted

\* the cells reachable from root are live and form a tree: no cell is
\* reached twice
WellFormed ==
    /\ Reach \subseteq live
    /\ numNodes(Now, root, "trap", Fuel) = Cardinality(Reach)

Abs(x) == IF x < 0 THEN -x ELSE x

BalancedAt(n) ==
    LET d == difference(Now, n, "stale") IN d.ok /\ Abs(d.bf) <= 1

\* every reachable node is within balance 1
AllBalanced == \A n \in Reach : BalancedAt(n)

\* at every reachable node the left keys are smaller and the right keys greater
Ordered ==
    \A n \in Reach :
        /\ \A k \in KeysBelow(heap[n].left) : k < heap[n].value
        /\ \A k \in KeysBelow(heap[n].right) : k > heap[n].value

\* ---- C1 ----
\* C1: after every insert or deleteNode call that returns, every node reachable
\* from root has |height(left) - height(right)| <= 1.
C1_AVLBalance == Returned => \A n \in Reach : BalancedAt(n)

\* ---- C2 ----
\* C2: after every insert or deleteNode call that returns, the tree is a strict
\* binary search tree: at every reachable node the keys of the left subtree are
\* smaller and the keys of the right subtree greater, and no key occurs twice.
C2_StrictBST ==
    Returned =>
        /\ \A n \in Reach :
             /\ \A k \in KeysBelow(heap[n].left) : k < heap[n].value
             /\ \A k \in KeysBelow(heap[n].right) : k > heap[n].value
        /\ \A a, b \in Reach : heap[a].value = heap[b].value => a = b

\* ---- C3 ----
\* C3: after every insert or deleteNode call that returns, getNumElements()
\* is the number of nodes reachable from root.
C3_CountIsReachable == Returned => getNumElements = Cardinality(Reach)

\* ---- C4 ----
\* C4: search(root, v) never fails, and it returns a node holding v exactly when
\* v was inserted and not deleted since (v is in the reference set ref).
C4_SearchIsMembership ==
    (~tainted /\ last.op = "search") =>
        /\ status = "ok"
        /\ (last.ret # NULL) <=> (last.arg \in ref)
        /\ last.ret # NULL => heap[last.ret].value = last.arg

\* ---- C5 ----
\* C5: deleteNode(root, v) of a value v that is not in the tree returns, with
\* the same root, the same nodes and the same getNumElements().
C5_DeleteAbsentNoOp ==
    [][(Returned /\ last'.op = "deleteNode" /\ last'.arg \notin Keys)
        => (status' = "ok" /\ ~tainted' /\ root' = root /\ heap' = heap
            /\ live' = live /\ elements' = elements)]_vars

\* the i-th smallest member of the set S, 1 <= i <= |S|
IthSmallest(S, i) == CHOOSE x \in S : Cardinality({y \in S : y < x}) = i - 1

\* ---- C6 ----
\* C6: insert(root, v) of a key v already in a tree built by inserts returns
\* the same root, changes no node and not getNumElements(), and rotates nothing.
C6_DuplicateInsertNoOp ==
    [][(status = "ok" /\ ndel = 0 /\ last'.op = "insert" /\ last'.arg \in Keys)
        => (status' = "ok" /\ root' = root /\ heap' = heap /\ live' = live
            /\ elements' = elements /\ last'.rot = 0)]_vars

\* a duplicate insert has returned on a tree of three keys or more
C6_Witness ==
    /\ status = "ok" /\ ndel = 0
    /\ last.op = "insert" /\ last.n0 = elements /\ last.arg \in Keys
    /\ elements >= 3

\* ---- C7 ----
\* C7: on a tree built by inserts that holds n keys, kSmallest(root, i) returns
\* the i-th smallest key for every i in 1..n: the call just made did, and so
\* would the call for every other i.
C7_KthSmallest ==
    (status = "ok" /\ ndel = 0) =>
        /\ (last.op = "kSmallest" /\ last.arg \in 1..Cardinality(Keys))
             => (~last.threw /\ last.ret = IthSmallest(Keys, last.arg))
        /\ \A i \in 1..Cardinality(Keys) :
             LET r == kSmallest(Now, root, i, "trap")
             IN ~r.m.fault /\ ~r.threw /\ r.ret = IthSmallest(Keys, i)

\* kSmallest(root, 3) has returned the third of four keys of a tree with a
\* left subtree
C7_Witness ==
    /\ status = "ok" /\ ndel = 0
    /\ last.op = "kSmallest" /\ last.arg = 3 /\ ~last.threw
    /\ Cardinality(Keys) = 4 /\ heap[root].left # NULL
    /\ last.ret = IthSmallest(Keys, 3)

\* ---- C8 ----
\* C8: kSmallest(root, k) throws exactly when k < 1 or k > getNumElements(), and
\* when it does not throw it returns a key of the tree.
C8_KSmallestErrors ==
    (~tainted /\ last.op = "kSmallest") =>
        /\ status = "ok"
        /\ last.threw <=> (last.arg < 1 \/ last.arg > getNumElements)
        /\ ~last.threw => last.ret \in Keys

\* ---- C9 ----
\* C9: on a well-formed tree and for a valid k, kSmallest returns and every
\* node's value, left and right are what they were before the call.
C9_TraversalRestores ==
    [][(status = "ok" /\ WellFormed /\ last'.op = "kSmallest"
        /\ last'.arg \in 1..getNumElements)
        => (status' = "ok" /\ ~last'.threw /\ heap' = heap)]_vars

\* kSmallest has returned for a k below the element count on a tree whose root
\* has a predecessor two links down, so that threads were installed
C9_Witness ==
    /\ status = "ok" /\ WellFormed
    /\ last.op = "kSmallest" /\ ~last.threw /\ last.arg < getNumElements
    /\ root # NULL /\ heap[root].left # NULL
    /\ heap[heap[root].left].right # NULL

\* ---- C10 ----
\* C10: for every x, getNumElements() = numNodesSmallerThan(root, x)
\* + numNodesGreaterThan(root, x) + (1 if x is in the tree, else 0).
C10_CountSplit ==
    (Returned /\ last.op = "numNodesSmallerThan") =>
        getNumElements = last.ret
                         + numNodesGreaterThan(Now, root, last.arg, "trap", Fuel)
                         + (IF last.arg \in Keys THEN 1 ELSE 0)

\* ---- C11 ----
\* the third of three distinct keys has just been inserted into the empty tree;
\* the allocator being first fit, cells 1, 2, 3 hold them in insertion order
ThirdInserted ==
    /\ status = "ok" /\ ndel = 0
    /\ last.op = "insert" /\ last.n0 = 2 /\ live = {1, 2, 3}

IsLeaf(n) == n # NULL /\ heap[n].left = NULL /\ heap[n].right = NULL

\* the single rotation event of the last call was `kind`, applied at cell `at`
RotatedOnce(kind, at) ==
    Len(last.how) = 1 /\ last.how[1].kind = kind /\ last.how[1].at = at

\* C11: three distinct keys a < b < c inserted into the empty tree in any order
\* end as root b with leaves a and c and element count 3; ascending order takes
\* a left rotation (rr_rotation) at a, descending order a right rotation
\* (ll_rotation), c,a,b a left-right and a,c,b a right-left double rotation,
\* and the two orders starting with b take none.
C11_ThreeKeys ==
    ThirdInserted =>
        LET x == heap[1].value
            y == heap[2].value
            z == heap[3].value
            a == IthSmallest({x, y, z}, 1)
            b == IthSmallest({x, y, z}, 2)
            c == IthSmallest({x, y, z}, 3)
        IN /\ getNumElements = 3
           /\ root # NULL /\ heap[root].value = b
           /\ IsLeaf(heap[root].left) /\ heap[heap[root].left].value = a
           /\ IsLeaf(heap[root].right) /\ heap[heap[root].right].value = c
           /\ (x < y /\ y < z) => RotatedOnce("rr", 1)
           /\ (x > y /\ y > z) => RotatedOnce("ll", 1)
           /\ (y < z /\ z < x) => RotatedOnce("lr", 1)
           /\ (x < z /\ z < y) => RotatedOnce("rl", 1)
           /\ x = b => last.how = <<>>

\* the keys went in as c, a, b and the double rotation was made
C11_Witness ==
    /\ ThirdInserted
    /\ heap[2].value < heap[3].value /\ heap[3].value < heap[1].value
    /\ last.rot = 1

\* ---- C12 ----
\* the reachable cell that holds v, and whether it has two children
Holder(v) == CHOOSE n \in Reach : heap[n].value = v

TwoChildren(n) == heap[n].left # NULL /\ heap[n].right # NULL

\* C12: deleteNode of a key whose node has two children returns, keeps that
\* node, overwrites its value with the leftmost key of its right subtree, frees
\* exactly the cell that held that key, lowers the count by one, and leaves the
\* keys minus the deleted one in a balanced search tree.
C12_TwoChildDelete ==
    [][(Returned /\ WellFormed /\ Ordered /\ last'.op = "deleteNode"
        /\ last'.arg \in Keys /\ TwoChildren(Holder(last'.arg)))
        => LET n == Holder(last'.arg)
               succ == minValueNode(Now, heap[n].right, "trap", Fuel)
           IN /\ status' = "ok" /\ ~tainted'
              /\ n \in Reach' /\ heap'[n].value = heap[succ].value
              /\ live' = live \ {succ}
              /\ Keys' = Keys \ {last'.arg}
              /\ elements' = elements - 1
              /\ WellFormed' /\ Ordered' /\ AllBalanced']_vars

\* ---- C13 ----
\* C13: deleting the key of a one-node tree leaves root absent and
\* getNumElements() at 0.
C13_LastNodeDeleted ==
    [][(Returned /\ WellFormed /\ Cardinality(Reach) = 1
        /\ last'.op = "deleteNode" /\ last'.arg \in Keys)
        => (status' = "ok" /\ root' = NULL /\ elements' = 0)]_vars

\* ---- C14 ----
\* C14: deleteNode called on a node that holds the value and has at most one
\* child returns that node's own child (or null), wherever the node is.
C14_SpliceOwnChild ==
    (Returned /\ WellFormed) =>
        \A n \in Reach :
            ~TwoChildren(n) =>
                LET r == deleteNode(Now, n, heap[n].value, "trap", DeleteFuel)
                IN /\ ~r.m.fault
                   /\ r.ret = (IF heap[n].left = NULL THEN heap[n].right
                               ELSE heap[n].left)

\* ---- C15 ----
\* the pointer that led to cell n: root, or the child slot of its parent
LedTo(n, top) ==
    IF n = root THEN root' = top
    ELSE \A q \in Reach :
            /\ heap[q].left = n => heap'[q].left = top
            /\ heap[q].right = n => heap'[q].right = top

\* C15: when balance rotates once at an ancestor during a delete, the pointer
\* that led to that ancestor is rebound to the subtree root the rotation
\* returned, and every key but the deleted one is still reachable.
C15_DeleteRebinds ==
    [][(Returned /\ WellFormed /\ last'.op = "deleteNode" /\ status' = "ok"
        /\ ~tainted' /\ Len(last'.how) = 1)
        => /\ LedTo(last'.how[1].at, last'.how[1].top)
           /\ Keys \ {last'.arg} \subseteq Keys']_vars

\* ---- C16 ----
\* C16: balance, called on a node whose balance factor is +2 or -2 and whose
\* two subtrees have every node within balance 1, returns a subtree in which
\* every node is within balance 1.
C16_BalanceRestores ==
    [][(status = "ok" /\ WellFormed /\ last'.op = "balance"
        /\ Abs(difference(Now, root, "trap").bf) = 2
        /\ \A n \in Reach \ {root} : BalancedAt(n))
        => (status' = "ok" /\ AllBalanced')]_vars

\* ---- C17 ----
\* C17: one insert into a balanced search tree makes balance rotate (singly or
\* doubly) at no more than one node of the path, and every node is within
\* balance 1 when it returns.
C17_OneRotationEvent ==
    [][(status = "ok" /\ ndel = 0 /\ WellFormed /\ Ordered /\ AllBalanced
        /\ last'.op = "insert")
        => (status' = "ok" /\ Len(last'.how) <= 1 /\ last'.rot = Len(last'.how)
            /\ AllBalanced')]_vars

\* an insert of a fifth key that rotated below the root
C17_Witness ==
    /\ status = "ok" /\ ndel = 0 /\ last.op = "insert" /\ last.n0 = 4
    /\ elements = 5 /\ Len(last.how) = 1 /\ last.how[1].top # root
    /\ AllBalanced

\* ---- C18 ----
\* C18: after inserts only, every node is within balance 1, the search order
\* holds, and the reachable keys are exactly the values inserted.
C18_InsertOnly ==
    (status = "ok" /\ ndel = 0) => (AllBalanced /\ Ordered /\ Keys = ref)

\* five distinct values inserted, the last one by a double rotation
C18_Witness ==
    /\ status = "ok" /\ ndel = 0 /\ Cardinality(ref) = 5 /\ Keys = ref
    /\ last.op = "insert" /\ Len(last.how) = 1
    /\ last.how[1].kind \in {"lr", "rl"}

\* ---- C19 ----
\* C19: after deleteNode returns, what root reaches is a tree of live cells: no
\* freed cell, no cell reached along two paths, no cycle.
C19_StillATree == (Returned /\ last.op = "deleteNode") => WellFormed
====
